---- MODULE Spec2Model ----
(***************************************************************************)
(* A model of HistoryView::Element (history_view_element.cpp) and of       *)
(* Intro::Widget::getStep (introwidget.h).                                 *)
(*                                                                         *)
(* Elements are numbered 1..NumElements, nullptr is 0.  Every element      *)
(* decorates one history item (item[e] is *e->data()).  The model has one  *)
(* specification per part of the class:                                    *)
(*   SpecGroup   the Group component: makeGroupMember, makeGroupLeader,    *)
(*               groupIdValidityChanged, after the constructor's initGroup *)
(*   SpecBlock   attachToBlock / setIndexInBlock                           *)
(*   SpecView    date separator and attach-to-previous bookkeeping of      *)
(*               elements laid out in the blocks of a history              *)
(*   SpecResize  the NeedsResize flag under the setters, setPendingResize  *)
(*               and countCurrentSize                                      *)
(*   SpecAttach  computeIsAttachToPrevious as a function of two items      *)
(*   SpecStep    Intro::Widget::getStep                                    *)
(***************************************************************************)
EXTENDS Integers, Sequences, FiniteSets, TLC

VARIABLES
    item,                    \* item[e]: the HistoryItem behind element e
    isSelf,                  \* item->history()->peer->isSelf()
    context,                 \* context[e]: Element::_context
    flags,                   \* flags[e]: Element::_flags, a set of Flag names
    block,                   \* block[e]: Element::_block (0 is nullptr)
    indexInBlock,            \* indexInBlock[e]: Element::_indexInBlock
    messages,                \* messages[b]: HistoryBlock::messages of block b
    mainView,                \* mainView[e]: the item's main view (setMainView)
    group,                   \* group[e]: the Group component of element e
    media,                   \* media[e]: Element::_media
    hasPendingResizedItems,  \* History::setHasPendingResizedItems was called
    initSincePending,        \* initDimensions calls on e since setPendingResize
    stepHistory,             \* Intro::Widget::_stepHistory
    last                     \* the call that produced this state

vars == << item, isSelf, context, flags, block, indexInBlock, messages,
           mainView, group, media, hasPendingResizedItems, initSincePending,
           stepHistory, last >>

---------------------------------------------------------------------------
(* Bounds of the model. *)

NumElements == 3
NumBlocks == 2
NumViews == 2
MaxInitCalls == 2
MaxGrouped == 1
MaxIndex == 2
MaxSteps == 3
MaxSkip == 3

(* Program constants. *)

nullptr == 0
kAttachMessageToPreviousSecondsDelta == 900
SecsPerDay == 86400

Elems == 1 .. NumElements
Blocks == 1 .. NumBlocks
Senders == {"alice", "bob"}
Contexts == {"History", "Feed"}
Flag == {"NeedsResize", "AttachedToPrevious", "AttachedToNext", "HiddenByGroup"}

Abs(x) == IF x < 0 THEN -x ELSE x

RECURSIVE SeqsUpTo(_, _)
SeqsUpTo(S, n) ==
    IF n = 0 THEN {<< >>}
    ELSE LET shorter == SeqsUpTo(S, n - 1)
         IN  shorter \cup {Append(s, x) : s \in shorter, x \in S}

Count(s, x) == Cardinality({i \in DOMAIN s : s[i] = x})

---------------------------------------------------------------------------
(* The record of the last call: op is the method, el the element it was   *)
(* called on, arg its element or integer argument, was a value read on    *)
(* entry, res a boolean argument or result, list a vector argument and    *)
(* calls the calls it made on the session, the history and the views.     *)

Call(op, el, arg, was, res, list, calls) ==
    [op |-> op, el |-> el, arg |-> arg, was |-> was, res |-> res,
     list |-> list, calls |-> calls]

NoCall == Call("none", 0, 0, 0, FALSE, << >>, << >>)

---------------------------------------------------------------------------
(* History items.  The fields are what the element code reads of an item:  *)
(* date is in seconds, local time; hasDate and hasUnreadBar are the         *)
(* HistoryMessageDate and HistoryMessageUnreadBar components.               *)

NewItem(date, from, senderOriginal, kind, forwarded, hasDate, hasUnreadBar) ==
    [date |-> date, from |-> from, senderOriginal |-> senderOriginal,
     isPost |-> (kind = "post"), serviceMsg |-> (kind = "service"),
     isEmpty |-> (kind = "empty"), forwarded |-> forwarded,
     hasDate |-> hasDate, hasUnreadBar |-> hasUnreadBar,
     isLogEntry |-> FALSE, groupId |-> 0]

DefaultItem == NewItem(SecsPerDay, "alice", "alice", "regular", FALSE, FALSE, FALSE)

(* The value of _flags in a constructed element: the constructor does not   *)
(* assign it, so it is the header's default, with or without NeedsResize.   *)
DefaultFlags == {{}, {"NeedsResize"}}

NoGroup == [has |-> FALSE, groupId |-> 0, leader |-> nullptr, others |-> << >>]

(* Element::initGroup, run by the constructor. *)
initGroup(e, groupId) ==
    IF groupId # 0
    THEN [has |-> TRUE, groupId |-> groupId, leader |-> e, others |-> << >>]
    ELSE NoGroup

isHiddenByGroup(e) == "HiddenByGroup" \in flags[e]
pendingResize(e) == "NeedsResize" \in flags[e]
isAttachedToPrevious(e) == "AttachedToPrevious" \in flags[e]
isAttachedToNext(e) == "AttachedToNext" \in flags[e]

(* What _media->takeLastFromGroup() may return for media m: nothing, or a   *)
(* single media.                                                            *)
takeLastFromGroup(m) == IF m = "none" THEN {"none"} ELSE {"none", "single"}

(* What _media->applyGroup(others) may return; it is called only on a      *)
(* media that exists (!_media || !_media->applyGroup(...)).                *)
applyGroup(m) == IF m = "none" THEN {FALSE} ELSE BOOLEAN

(* What _media->canBeGrouped() may return; it is called only when the      *)
(* element has a Group and a media.                                        *)
canBeGrouped(g, m) == IF g.has /\ m # "none" THEN BOOLEAN ELSE {FALSE}

(* The vectors passed to makeGroupLeader(e, ...): other members of the     *)
(* album, in the order of the history.                                     *)
OthersOf(e) ==
    {s \in SeqsUpTo(Elems \ {e}, NumElements - 1) :
        \A i, j \in DOMAIN s : i < j => s[i] < s[j]}

---------------------------------------------------------------------------
(* The variables a specification does not use keep these values. *)

NoItems == item = [e \in Elems |-> DefaultItem] /\ isSelf = FALSE
NoBlocks ==
    /\ block = [e \in Elems |-> nullptr]
    /\ indexInBlock = [e \in Elems |-> -1]
    /\ messages = [b \in Blocks |-> << >>]
    /\ mainView = [e \in Elems |-> FALSE]
NoGroups == group = [e \in Elems |-> NoGroup] /\ media = [e \in Elems |-> "none"]
NoResize ==
    /\ hasPendingResizedItems = FALSE
    /\ initSincePending = [e \in Elems |-> 0]
NoSteps == stepHistory = << >>

---------------------------------------------------------------------------
(* SpecGroup: the Group component. *)

InitGroup ==
    /\ \E ids \in [Elems -> 0 .. 1] :
          /\ Cardinality({e \in Elems : ids[e] # 0}) <= MaxGrouped
          /\ item = [e \in Elems |-> [DefaultItem EXCEPT !.groupId = ids[e]]]
          /\ group = [e \in Elems |-> initGroup(e, ids[e])]
    /\ isSelf = FALSE
    /\ context = [e \in Elems |-> "History"]
    /\ media \in [Elems -> {"none", "single"}]
    /\ \A e \in Elems : group[e].has \/ media[e] = "none"   \* albums only
    /\ \E f \in DefaultFlags : flags = [e \in Elems |-> f]
    /\ NoBlocks /\ NoResize /\ NoSteps
    /\ last = NoCall

GroupUnchanged ==
    UNCHANGED << item, isSelf, context, block, indexInBlock, messages, mainView,
                 hasPendingResizedItems, initSincePending, stepHistory >>

(* makeGroupMember without base::take(group->others). *)
makeGroupMember_keepsOthers(e, leader) ==
    /\ leader # e
    /\ group[e].has
    /\ IF group[e].leader = e
       THEN /\ \E single \in takeLastFromGroup(media[e]) :
                  media' = [media EXCEPT ![e] =
                               IF single # "none" THEN single ELSE @]
            /\ flags' = [flags EXCEPT ![e] = @ \cup {"HiddenByGroup"}]
            /\ group' = [group EXCEPT ![e].leader = leader]
            /\ last' = Call("makeGroupMember", e, leader, group[e].leader, FALSE,
                            << >>, << "requestViewResize" >>)
       ELSE /\ group' = IF group[e].leader # leader
                        THEN [group EXCEPT ![e].leader = leader]
                        ELSE group
            /\ UNCHANGED << media, flags >>
            /\ last' = Call("makeGroupMember", e, leader, group[e].leader, FALSE,
                            << >>, << >>)
    /\ GroupUnchanged

(* Element::makeGroupMember(leader). *)
makeGroupMember(e, leader) ==
    /\ leader # e                                   \* Expects(leader != this)
    /\ group[e].has                                 \* Assert(group != nullptr)
    /\ IF group[e].leader = e
       THEN /\ \E single \in takeLastFromGroup(media[e]) :
                  media' = [media EXCEPT ![e] =
                               IF single # "none" THEN single ELSE @]
            /\ flags' = [flags EXCEPT ![e] = @ \cup {"HiddenByGroup"}]
            /\ group' = [group EXCEPT ![e].leader = leader, ![e].others = << >>]
            /\ last' = Call("makeGroupMember", e, leader, group[e].leader, FALSE,
                            << >>, << "requestViewResize" >>)
       ELSE /\ group' = IF group[e].leader # leader
                        THEN [group EXCEPT ![e].leader = leader]
                        ELSE group
            /\ UNCHANGED << media, flags >>
            /\ last' = Call("makeGroupMember", e, leader, group[e].leader, FALSE,
                            << >>, << >>)
    /\ GroupUnchanged

(* Element::resetGroupMedia(others): the new media and the calls made. *)
resetGroupMedia(m, others) ==
    IF others # << >> THEN {"grouped"}
    ELSE IF m # "none" THEN takeLastFromGroup(m)
    ELSE {m}

(* makeGroupLeader that does not clear HiddenByGroup on a leader change. *)
makeGroupLeader_staysHidden(e, others, applied) ==
    LET leaderChanged == group[e].leader # e
        reset == media[e] = "none" \/ ~applied
    IN  /\ group[e].has
        /\ group' = [group EXCEPT ![e].leader = e, ![e].others = others]
        /\ flags' = flags
        /\ IF reset
           THEN \E m \in resetGroupMedia(media[e], others) :
                    media' = [media EXCEPT ![e] = m]
           ELSE UNCHANGED media
        /\ last' = Call("makeGroupLeader", e, nullptr, group[e].leader, applied, others,
                        (IF leaderChanged THEN << "requestViewResize" >> ELSE << >>)
                        \o (IF reset
                            THEN << "requestViewResize", "invalidateChatsListEntry" >>
                            ELSE << >>))
        /\ GroupUnchanged

(* Element::makeGroupLeader(others); applied is what applyGroup returns. *)
makeGroupLeader(e, others, applied) ==
    LET leaderChanged == group[e].leader # e
        reset == media[e] = "none" \/ ~applied
    IN  /\ group[e].has                             \* Assert(group != nullptr)
        /\ group' = [group EXCEPT ![e].leader = e, ![e].others = others]
        /\ flags' = IF leaderChanged
                    THEN [flags EXCEPT ![e] = @ \ {"HiddenByGroup"}]
                    ELSE flags
        /\ IF reset
           THEN \E m \in resetGroupMedia(media[e], others) :
                    media' = [media EXCEPT ![e] = m]
           ELSE UNCHANGED media
        /\ last' = Call("makeGroupLeader", e, nullptr, group[e].leader, applied, others,
                        (IF leaderChanged THEN << "requestViewResize" >> ELSE << >>)
                        \o (IF reset
                            THEN << "requestViewResize", "invalidateChatsListEntry" >>
                            ELSE << >>))
        /\ GroupUnchanged

(* Element::groupIdValidityChanged(), which validateGroupId() calls and    *)
(* whose result it ignores; can is what _media->canBeGrouped() returns.    *)
groupIdValidityChanged(e, can) ==
    /\ IF group[e].has /\ ~(media[e] # "none" /\ can)
       THEN /\ group' = [group EXCEPT ![e] = NoGroup]
            /\ last' = Call("groupIdValidityChanged", e, nullptr, nullptr, TRUE,
                            << >>, << "requestViewResize" >>)
       ELSE /\ UNCHANGED group
            /\ last' = Call("groupIdValidityChanged", e, nullptr, nullptr, FALSE,
                            << >>, << >>)
    /\ UNCHANGED << flags, media >>
    /\ GroupUnchanged

MakeGroupMember == \E e, leader \in Elems : makeGroupMember(e, leader)
MakeGroupLeader ==
    \E e \in Elems : \E others \in OthersOf(e) :
        \E applied \in applyGroup(media[e]) : makeGroupLeader(e, others, applied)
GroupIdValidityChanged ==
    \E e \in Elems : \E can \in canBeGrouped(group[e], media[e]) :
        groupIdValidityChanged(e, can)

NextGroup ==
    \/ MakeGroupMember
    \/ MakeGroupLeader
    \/ GroupIdValidityChanged

SpecGroup == InitGroup /\ [][NextGroup]_vars

(* C1: after makeGroupMember(leader), leader # this, on an element with a  *)
(* Group component, the element is hidden by its group, its own list of    *)
(* others is empty and its leader is the given one, whether it was its own *)
(* leader, a member of another leader or already a member of this one.     *)
C1_MemberIsHidden ==
    last.op = "makeGroupMember" =>
        /\ last.arg # last.el
        /\ isHiddenByGroup(last.el)
        /\ group[last.el].others = << >>
        /\ group[last.el].leader = last.arg

(* The cases of makeGroupMember: last.was is the leader on entry. *)
C1_WasOwnLeader == last.op = "makeGroupMember" /\ last.was = last.el
C1_WasSameLeader == last.op = "makeGroupMember" /\ last.was = last.arg
C1_Witness ==
    /\ last.op = "makeGroupMember"
    /\ last.was \notin {last.el, last.arg}
    /\ group[last.el].leader = last.arg
    /\ isHiddenByGroup(last.el)

(* A makeGroupLeader step on element e. *)
C2_LeaderStep(e) ==
    /\ ~isHiddenByGroup(e)'
    /\ group'[e].leader = e
    /\ group'[e].others = last'.list
    /\ group[e].has
    /\ IF group[e].leader = e
       THEN /\ flags'[e] = flags[e]
            /\ Count(last'.calls, "requestViewResize")
                 = Count(last'.calls, "invalidateChatsListEntry")
       ELSE /\ flags'[e] = flags[e] \ {"HiddenByGroup"}
            /\ Count(last'.calls, "requestViewResize")
                 = 1 + Count(last'.calls, "invalidateChatsListEntry")

(* C2: makeGroupLeader(others) on an element with a Group component        *)
(* returns with the element not hidden, its own leader, and others the     *)
(* passed list; the flag is cleared and the leader-change view resize is   *)
(* requested exactly when the element was not its own leader on entry      *)
(* (resetGroupMedia requests one more, with invalidateChatsListEntry).     *)
C2_LeaderIsShown ==
    [][\A e \in Elems :
          (last'.op = "makeGroupLeader" /\ last'.el = e) => C2_LeaderStep(e)]_vars

C2_Witness ==
    /\ last.op = "makeGroupLeader"
    /\ last.was # last.el
    /\ last.list # << >>
    /\ ~isHiddenByGroup(last.el)
    /\ group[last.el].leader = last.el

C2_WasOwnLeader ==
    /\ last.op = "makeGroupLeader" /\ last.was = last.el /\ last.calls = << >>

---------------------------------------------------------------------------
(* SpecBlock: attaching an element to a block of the history.  Only the    *)
(* element's side is modelled: the block's own vector is the history's.    *)

InitBlock ==
    /\ \E logs \in [Elems -> BOOLEAN] :
          item = [e \in Elems |-> [DefaultItem EXCEPT !.isLogEntry = logs[e]]]
    /\ isSelf = FALSE
    /\ context = [e \in Elems |-> IF item[e].isLogEntry THEN "AdminLog" ELSE "History"]
    /\ \E f \in DefaultFlags : flags = [e \in Elems |-> f]
    /\ NoBlocks /\ NoGroups /\ NoResize /\ NoSteps
    /\ last = NoCall

BlockUnchanged ==
    UNCHANGED << item, isSelf, context, flags, messages, group, media,
                 hasPendingResizedItems, initSincePending, stepHistory >>

(* Element::attachToBlock(block, index). *)
attachToBlock(e, b, index) ==
    /\ ~item[e].isLogEntry                   \* Expects(!_data->isLogEntry())
    /\ block[e] = nullptr                    \* Expects(_block == nullptr)
    /\ indexInBlock[e] < 0                   \* Expects(_indexInBlock < 0)
    /\ index >= 0                            \* Expects(index >= 0)
    /\ block' = [block EXCEPT ![e] = b]
    /\ indexInBlock' = [indexInBlock EXCEPT ![e] = index]
    /\ mainView' = [mainView EXCEPT ![e] = TRUE]
    /\ last' = Call("attachToBlock", e, index, b, FALSE, << >>, << "setMainView" >>)
    /\ BlockUnchanged

(* setIndexInBlock without Expects(_block != nullptr). *)
setIndexInBlock_noBlockCheck(e, index) ==
    /\ index >= 0
    /\ indexInBlock' = [indexInBlock EXCEPT ![e] = index]
    /\ last' = Call("setIndexInBlock", e, index, block[e], FALSE, << >>, << >>)
    /\ UNCHANGED << block, mainView >>
    /\ BlockUnchanged

(* Element::setIndexInBlock(index). *)
setIndexInBlock(e, index) ==
    /\ block[e] # nullptr                    \* Expects(_block != nullptr)
    /\ index >= 0                            \* Expects(index >= 0)
    /\ indexInBlock' = [indexInBlock EXCEPT ![e] = index]
    /\ last' = Call("setIndexInBlock", e, index, block[e], FALSE, << >>, << >>)
    /\ UNCHANGED << block, mainView >>
    /\ BlockUnchanged

AttachToBlock ==
    \E e \in Elems : \E b \in Blocks : \E index \in -1 .. MaxIndex :
        attachToBlock(e, b, index)
SetIndexInBlock ==
    \E e \in Elems : \E index \in -1 .. MaxIndex : setIndexInBlock(e, index)

NextBlock ==
    \/ AttachToBlock
    \/ SetIndexInBlock

SpecBlock == InitBlock /\ [][NextBlock]_vars

(* Element::indexInBlock()'s first precondition. *)
IndexMatchesBlock(idx, blk) ==
    \A e \in Elems : (idx[e] >= 0) <=> (blk[e] # nullptr)

(* An attachToBlock or setIndexInBlock step on element e. *)
C4_Step(e) ==
    /\ last'.op = "attachToBlock" =>
          /\ ~item[e].isLogEntry
          /\ block[e] = nullptr /\ indexInBlock[e] < 0
          /\ block'[e] # nullptr /\ indexInBlock'[e] = last'.arg
    /\ last'.op = "setIndexInBlock" =>
          /\ block[e] # nullptr /\ block'[e] = block[e]
          /\ indexInBlock'[e] = last'.arg

(* C4: the index is non-negative exactly when the element has a block;     *)
(* attachToBlock acts only on an element that is no log entry, has no      *)
(* block and a negative index (so never twice), setIndexInBlock only on    *)
(* an element that has a block.                                            *)
C4_IndexIffBlock ==
    /\ IndexMatchesBlock(indexInBlock, block)
    /\ [][/\ IndexMatchesBlock(indexInBlock', block')
          /\ \A e \in Elems : last'.el = e => C4_Step(e)]_vars

C4_Witness ==
    /\ last.op = "setIndexInBlock"
    /\ block[last.el] # nullptr
    /\ indexInBlock[last.el] = last.arg
    /\ \E e \in Elems : block[e] = nullptr /\ indexInBlock[e] < 0

---------------------------------------------------------------------------
(* Elements in the blocks of a history. *)

(* QDateTime::secsTo and QDateTime::date() on dates kept in seconds. *)
secsTo(from, to) == to - from
dateOf(d) == d \div SecsPerDay

(* HistoryBlock::previousBlock(): the blocks of a history are in order. *)
previousBlock(b) == IF b > 1 THEN b - 1 ELSE nullptr

(* Element::previousInBlocks(). *)
previousInBlocks(e) ==
    IF block[e] # nullptr /\ indexInBlock[e] >= 0
    THEN IF indexInBlock[e] > 0
         THEN messages[block[e]][indexInBlock[e]]
         ELSE IF previousBlock(block[e]) # nullptr
              THEN messages[previousBlock(block[e])][Len(messages[previousBlock(block[e])])]
              ELSE nullptr
    ELSE nullptr

(* computeIsAttachToPrevious comparing from() in the self chat as well. *)
computeIsAttachToPrevious_fromOnly(it, prev, self) ==
    IF ~it.hasDate /\ ~it.hasUnreadBar
    THEN LET possible ==
                 /\ ~it.isPost /\ ~prev.isPost
                 /\ ~it.serviceMsg /\ ~prev.serviceMsg
                 /\ ~it.isEmpty /\ ~prev.isEmpty
                 /\ Abs(secsTo(prev.date, it.date)) < kAttachMessageToPreviousSecondsDelta
         IN  IF possible THEN prev.from = it.from ELSE FALSE
    ELSE FALSE

(* Element::computeIsAttachToPrevious(previous) on the two items; self is  *)
(* item->history()->peer->isSelf().                                        *)
computeIsAttachToPrevious(it, prev, self) ==
    IF ~it.hasDate /\ ~it.hasUnreadBar
    THEN LET possible ==
                 /\ ~it.isPost /\ ~prev.isPost
                 /\ ~it.serviceMsg /\ ~prev.serviceMsg
                 /\ ~it.isEmpty /\ ~prev.isEmpty
                 /\ Abs(secsTo(prev.date, it.date)) < kAttachMessageToPreviousSecondsDelta
         IN  IF possible
             THEN IF self
                  THEN /\ prev.senderOriginal = it.senderOriginal
                       /\ prev.forwarded = it.forwarded
                  ELSE prev.from = it.from
             ELSE FALSE
    ELSE FALSE

(* The part of the state the view methods change, and the calls made. *)
View ==
    [item |-> item, flags |-> flags, pend |-> hasPendingResizedItems,
     init |-> initSincePending, calls |-> << >>]

(* Element::setPendingResize(). *)
setPendingResize(st, e) ==
    [st EXCEPT !.flags[e] = @ \cup {"NeedsResize"},
               !.pend = @ \/ (context[e] = "History"),
               !.init[e] = 0]

(* Element::setDisplayDate(displayDate). *)
setDisplayDate(st, e, displayDate) ==
    IF displayDate /\ ~st.item[e].hasDate
    THEN setPendingResize([st EXCEPT !.item[e].hasDate = TRUE], e)
    ELSE IF ~displayDate /\ st.item[e].hasDate
    THEN setPendingResize([st EXCEPT !.item[e].hasDate = FALSE], e)
    ELSE st

(* Element::setAttachToNext(attachToNext). *)
setAttachToNext(st, e, attachToNext) ==
    IF attachToNext /\ "AttachedToNext" \notin st.flags[e]
    THEN [st EXCEPT !.flags[e] = @ \cup {"AttachedToNext"},
                    !.calls = Append(@, "requestItemRepaint")]
    ELSE IF ~attachToNext /\ "AttachedToNext" \in st.flags[e]
    THEN [st EXCEPT !.flags[e] = @ \ {"AttachedToNext"},
                    !.calls = Append(@, "requestItemRepaint")]
    ELSE st

(* setAttachToPrevious that asks for a resize on every call. *)
setAttachToPrevious_alwaysResizes(st, e, attachToPrevious) ==
    setPendingResize(
        [st EXCEPT !.flags[e] = IF attachToPrevious
                                THEN @ \cup {"AttachedToPrevious"}
                                ELSE @ \ {"AttachedToPrevious"}], e)

(* Element::setAttachToPrevious(attachToPrevious). *)
setAttachToPrevious(st, e, attachToPrevious) ==
    IF attachToPrevious /\ "AttachedToPrevious" \notin st.flags[e]
    THEN setPendingResize([st EXCEPT !.flags[e] = @ \cup {"AttachedToPrevious"}], e)
    ELSE IF ~attachToPrevious /\ "AttachedToPrevious" \in st.flags[e]
    THEN setPendingResize([st EXCEPT !.flags[e] = @ \ {"AttachedToPrevious"}], e)
    ELSE st

(* recountAttachToPreviousInBlocks that leaves the previous element alone. *)
recountAttachToPreviousInBlocks_forgetsPrevious(st, e) ==
    LET previous == previousInBlocks(e)
        attachToPrevious ==
            IF previous # nullptr
            THEN computeIsAttachToPrevious(st.item[e], st.item[previous], isSelf)
            ELSE FALSE
    IN  setAttachToPrevious(st, e, attachToPrevious)

(* Element::recountAttachToPreviousInBlocks(). *)
recountAttachToPreviousInBlocks(st, e) ==
    LET previous == previousInBlocks(e)
        attachToPrevious ==
            IF previous # nullptr
            THEN computeIsAttachToPrevious(st.item[e], st.item[previous], isSelf)
            ELSE FALSE
        st1 == IF previous # nullptr
               THEN setAttachToNext(st, previous, attachToPrevious)
               ELSE st
    IN  setAttachToPrevious(st1, e, attachToPrevious)

(* recountDisplayDateInBlocks without the check for an empty item. *)
recountDisplayDateInBlocks_ignoresEmpty(st, e) ==
    LET previous == previousInBlocks(e)
        displayDate ==
            IF previous # nullptr
            THEN \/ st.item[previous].isEmpty
                 \/ dateOf(st.item[previous].date) # dateOf(st.item[e].date)
            ELSE TRUE
    IN  setDisplayDate(st, e, displayDate)

(* Element::recountDisplayDateInBlocks(). *)
recountDisplayDateInBlocks(st, e) ==
    LET previous == previousInBlocks(e)
        displayDate ==
            IF st.item[e].isEmpty THEN FALSE
            ELSE IF previous # nullptr
            THEN \/ st.item[previous].isEmpty
                 \/ dateOf(st.item[previous].date) # dateOf(st.item[e].date)
            ELSE TRUE
    IN  setDisplayDate(st, e, displayDate)

(* previousInBlocksChanged recounting the attachment before the date. *)
previousInBlocksChanged_attachFirst(st, e) ==
    recountDisplayDateInBlocks(recountAttachToPreviousInBlocks(st, e), e)

(* Element::previousInBlocksChanged(). *)
previousInBlocksChanged(st, e) ==
    recountAttachToPreviousInBlocks(recountDisplayDateInBlocks(st, e), e)

(* Element::nextInBlocksChanged(). *)
nextInBlocksChanged(st, e) == setAttachToNext(st, e, FALSE)

(* countCurrentSize that leaves NeedsResize set. *)
countCurrentSize_keepsFlag(st, e) ==
    IF "NeedsResize" \in st.flags[e]
    THEN [st EXCEPT !.init[e] = IF @ < MaxInitCalls THEN @ + 1 ELSE @,
                    !.calls = @ \o << "initDimensions", "performCountCurrentSize" >>]
    ELSE [st EXCEPT !.calls = Append(@, "performCountCurrentSize")]

(* Element::countCurrentSize(newWidth); initDimensions and                 *)
(* performCountCurrentSize are the subclass's and are recorded as calls.   *)
countCurrentSize(st, e) ==
    IF "NeedsResize" \in st.flags[e]
    THEN [st EXCEPT !.flags[e] = @ \ {"NeedsResize"},
                    !.init[e] = IF @ < MaxInitCalls THEN @ + 1 ELSE @,
                    !.calls = @ \o << "initDimensions", "performCountCurrentSize" >>]
    ELSE [st EXCEPT !.calls = Append(@, "performCountCurrentSize")]

(* The state after a view method, and the record of the call. *)
Returns(st, op, e, arg, res) ==
    /\ item' = st.item
    /\ flags' = st.flags
    /\ hasPendingResizedItems' = st.pend
    /\ initSincePending' = st.init
    /\ last' = Call(op, e, arg, nullptr, res, << >>, st.calls)
    /\ UNCHANGED << isSelf, context, block, indexInBlock, messages, mainView,
                    group, media, stepHistory >>

---------------------------------------------------------------------------
(* SpecView: the first NumViews elements laid out in the blocks of a       *)
(* history, in order; what follows is the date separator and the           *)
(* attachment of each element to its neighbours.                           *)

Views == 1 .. NumViews

(* A layout gives the block of each of the first k elements: the blocks    *)
(* are filled in order and none is empty.                                  *)
Layouts ==
    UNION {{f \in [1 .. k -> Blocks] :
               /\ f[1] = 1
               /\ \A i \in 1 .. k - 1 : f[i + 1] \in {f[i], f[i] + 1}} :
           k \in 1 .. NumViews}

LaidOut(f) ==
    /\ block = [e \in Elems |-> IF e \in DOMAIN f THEN f[e] ELSE nullptr]
    /\ indexInBlock =
          [e \in Elems |->
              IF e \in DOMAIN f
              THEN Cardinality({i \in DOMAIN f : f[i] = f[e] /\ i < e})
              ELSE -1]
    /\ messages =
          [b \in Blocks |->
              LET S == {i \in DOMAIN f : f[i] = b}
              IN  [j \in 1 .. Cardinality(S) |->
                      CHOOSE i \in S : Cardinality({x \in S : x < i}) = j - 1]]
    /\ mainView = [e \in Elems |-> e \in DOMAIN f]

(* The items of the history: the last second of a day, the first of the    *)
(* next, and messages 899 and 900 seconds later.                           *)
ViewItems ==
    { NewItem(SecsPerDay - 1, "alice", "alice", "regular", FALSE, FALSE, FALSE),
      NewItem(SecsPerDay, "alice", "alice", "regular", FALSE, FALSE, FALSE),
      NewItem(SecsPerDay + kAttachMessageToPreviousSecondsDelta - 1,
              "alice", "alice", "regular", FALSE, TRUE, FALSE),
      NewItem(SecsPerDay + kAttachMessageToPreviousSecondsDelta,
              "bob", "bob", "regular", FALSE, FALSE, FALSE),
      NewItem(SecsPerDay + kAttachMessageToPreviousSecondsDelta - 1,
              "alice", "alice", "empty", FALSE, TRUE, FALSE),
      NewItem(SecsPerDay, "alice", "alice", "regular", FALSE, FALSE, TRUE) }

InitView ==
    /\ \E f \in Layouts : LaidOut(f)
    /\ \E its \in [Views -> ViewItems] :
          item = [e \in Elems |-> IF e \in Views THEN its[e] ELSE DefaultItem]
    /\ isSelf \in BOOLEAN
    /\ context = [e \in Elems |-> IF block[e] # nullptr THEN "History" ELSE "Feed"]
    /\ \E f \in DefaultFlags : flags = [e \in Elems |-> f]
    /\ NoGroups /\ NoResize /\ NoSteps
    /\ last = NoCall

PreviousInBlocksChanged ==
    \E e \in Views :
        Returns(previousInBlocksChanged(View, e), "previousInBlocksChanged", e,
                previousInBlocks(e), FALSE)
NextInBlocksChanged ==
    \E e \in Views :
        Returns(nextInBlocksChanged(View, e), "nextInBlocksChanged", e, nullptr, FALSE)
RecountAttachToPreviousInBlocks ==
    \E e \in Views :
        Returns(recountAttachToPreviousInBlocks(View, e),
                "recountAttachToPreviousInBlocks", e, previousInBlocks(e), FALSE)
RecountDisplayDateInBlocks ==
    \E e \in Views :
        Returns(recountDisplayDateInBlocks(View, e),
                "recountDisplayDateInBlocks", e, previousInBlocks(e), FALSE)

NextView ==
    \/ PreviousInBlocksChanged
    \/ NextInBlocksChanged
    \/ RecountAttachToPreviousInBlocks
    \/ RecountDisplayDateInBlocks

SpecView == InitView /\ [][NextView]_vars

(* C5: after recountDisplayDateInBlocks the item has the date component    *)
(* exactly when it is not empty and there is no previous element, or the   *)
(* previous item is empty, or it is of another calendar day.               *)
C5_DateIffNewDay ==
    last.op = "recountDisplayDateInBlocks" =>
        LET e == last.el
            p == previousInBlocks(e)
        IN  item[e].hasDate <=>
               /\ ~item[e].isEmpty
               /\ \/ p = nullptr
                  \/ item[p].isEmpty
                  \/ dateOf(item[p].date) # dateOf(item[e].date)

C5_Witness ==
    /\ last.op = "recountDisplayDateInBlocks"
    /\ last.arg # nullptr
    /\ ~item[last.arg].isEmpty
    /\ dateOf(item[last.arg].date) # dateOf(item[last.el].date)
    /\ item[last.el].hasDate

C5_WitnessRemoved ==
    /\ last.op = "recountDisplayDateInBlocks"
    /\ last.arg # nullptr
    /\ ~item[last.el].hasDate /\ ~item[last.el].isEmpty
    /\ "NeedsResize" \in flags[last.el]

(* C6: after previousInBlocksChanged an element whose item carries a date  *)
(* separator or an unread bar is not attached to the previous element.     *)
C6_DateOrBarDetaches ==
    (/\ last.op = "previousInBlocksChanged"
     /\ item[last.el].hasDate \/ item[last.el].hasUnreadBar)
        => ~isAttachedToPrevious(last.el)

C6_Witness ==
    /\ last.op = "previousInBlocksChanged"
    /\ last.arg # nullptr
    /\ item[last.el].hasDate
    /\ item[last.arg].from = item[last.el].from
    /\ Abs(secsTo(item[last.arg].date, item[last.el].date))
          < kAttachMessageToPreviousSecondsDelta
    /\ ~isAttachedToPrevious(last.el)

(* A recountAttachToPreviousInBlocks step on element e. *)
C7_Step(e) ==
    LET p == previousInBlocks(e)
    IN  IF p # nullptr
        THEN /\ isAttachedToNext(p)' = isAttachedToPrevious(e)'
             /\ isAttachedToPrevious(e)'
                  = computeIsAttachToPrevious(item'[e], item'[p], isSelf')
        ELSE /\ ~isAttachedToPrevious(e)'
             /\ \A o \in Elems \ {e} : flags'[o] = flags[o]

(* C7: after recountAttachToPreviousInBlocks on e with a previous element  *)
(* p, p is attached to next exactly when e is attached to previous, which  *)
(* is computeIsAttachToPrevious(p); without a previous element e is not    *)
(* attached to previous and no other element's flags change.               *)
C7_NeighboursAgree ==
    [][\A e \in Elems :
          (last'.op = "recountAttachToPreviousInBlocks" /\ last'.el = e)
              => C7_Step(e)]_vars

C7_Witness ==
    /\ last.op = "recountAttachToPreviousInBlocks"
    /\ last.arg # nullptr
    /\ isAttachedToPrevious(last.el)
    /\ isAttachedToNext(last.arg)

C7_WitnessNoPrevious ==
    /\ last.op = "recountAttachToPreviousInBlocks"
    /\ last.arg = nullptr
    /\ \E o \in Elems \ {last.el} : isAttachedToPrevious(o)

---------------------------------------------------------------------------
(* SpecResize: the NeedsResize flag of the first NumViews elements, under  *)
(* direct calls of the setters, setPendingResize and countCurrentSize.     *)

InitResize ==
    /\ NoItems /\ NoBlocks /\ NoGroups /\ NoResize /\ NoSteps
    /\ \E c \in Contexts : context = [e \in Elems |-> c]
    /\ \E f \in DefaultFlags : flags = [e \in Elems |-> f]
    /\ last = NoCall

SetPendingResize ==
    \E e \in Views :
        Returns(setPendingResize(View, e), "setPendingResize", e, nullptr, FALSE)
CountCurrentSize ==
    \E e \in Views :
        Returns(countCurrentSize(View, e), "countCurrentSize", e, nullptr, FALSE)
SetDisplayDate ==
    \E e \in Views : \E displayDate \in BOOLEAN :
        Returns(setDisplayDate(View, e, displayDate), "setDisplayDate", e, nullptr,
                displayDate)
SetAttachToNext ==
    \E e \in Views : \E attachToNext \in BOOLEAN :
        Returns(setAttachToNext(View, e, attachToNext), "setAttachToNext", e, nullptr,
                attachToNext)
SetAttachToPrevious ==
    \E e \in Views : \E attachToPrevious \in BOOLEAN :
        Returns(setAttachToPrevious(View, e, attachToPrevious), "setAttachToPrevious",
                e, nullptr, attachToPrevious)

NextResize ==
    \/ SetPendingResize
    \/ CountCurrentSize
    \/ SetDisplayDate
    \/ SetAttachToNext
    \/ SetAttachToPrevious

SpecResize == InitResize /\ [][NextResize]_vars

(* A setter or countCurrentSize step on element e. *)
C8_Step(e) ==
    /\ last'.op = "setAttachToPrevious" =>
          IF last'.res # isAttachedToPrevious(e)
          THEN pendingResize(e)' /\ isAttachedToPrevious(e)' = last'.res
          ELSE flags' = flags
    /\ last'.op = "setDisplayDate" =>
          IF last'.res # item[e].hasDate
          THEN pendingResize(e)' /\ item'[e].hasDate = last'.res
          ELSE flags' = flags /\ item' = item
    /\ last'.op = "countCurrentSize" =>
          /\ ~pendingResize(e)'
          /\ Count(last'.calls, "initDimensions") = IF pendingResize(e) THEN 1 ELSE 0

InitializedOnce(init) == \A e \in Elems : init[e] <= 1

(* C8: setAttachToPrevious(v) and setDisplayDate(v) set NeedsResize when   *)
(* they change the stored value and leave the flags alone when they do     *)
(* not; countCurrentSize returns with the flag cleared and calls           *)
(* initDimensions exactly when it was set on entry, so initDimensions runs *)
(* at most once between two setPendingResize calls.                        *)
C8_OneShotResize ==
    /\ InitializedOnce(initSincePending)
    /\ [][/\ InitializedOnce(initSincePending')
          /\ \A e \in Elems : last'.el = e => C8_Step(e)]_vars

C8_Witness ==
    /\ last.op = "countCurrentSize"
    /\ Count(last.calls, "initDimensions") = 0
    /\ initSincePending[last.el] = 1
    /\ ~pendingResize(last.el)
    /\ isAttachedToPrevious(last.el)

---------------------------------------------------------------------------
(* SpecAttach: computeIsAttachToPrevious on every pair of items.  Element  *)
(* 2 follows element 1 in the first block.                                 *)

Kinds == {"regular", "post", "service", "empty"}

AttachDates ==
    { SecsPerDay,
      SecsPerDay + kAttachMessageToPreviousSecondsDelta - 1,
      SecsPerDay + kAttachMessageToPreviousSecondsDelta }

AttachItems ==
    { NewItem(d, f, o, k, fwd, hd, ub) :
        d \in AttachDates, f \in Senders, o \in Senders, k \in Kinds,
        fwd \in BOOLEAN, hd \in BOOLEAN, ub \in BOOLEAN }

InitAttach ==
    /\ LaidOut([i \in 1 .. 2 |-> 1])
    /\ \E its \in [1 .. 2 -> AttachItems] :
          item = [e \in Elems |-> IF e \in 1 .. 2 THEN its[e] ELSE DefaultItem]
    /\ isSelf \in BOOLEAN
    /\ context = [e \in Elems |-> "History"]
    /\ flags = [e \in Elems |-> {}]
    /\ NoGroups /\ NoResize /\ NoSteps
    /\ last = NoCall

ComputeIsAttachToPrevious ==
    \E e \in Elems :
        /\ previousInBlocks(e) # nullptr
        /\ last' = Call("computeIsAttachToPrevious", e, previousInBlocks(e), nullptr,
                        computeIsAttachToPrevious(item[e], item[previousInBlocks(e)],
                                                  isSelf),
                        << >>, << >>)
        /\ UNCHANGED << item, isSelf, context, flags, block, indexInBlock, messages,
                        mainView, group, media, hasPendingResizedItems,
                        initSincePending, stepHistory >>

NextAttach == ComputeIsAttachToPrevious

SpecAttach == InitAttach /\ [][NextAttach]_vars

Regular(it) == ~it.isPost /\ ~it.serviceMsg /\ ~it.isEmpty
Within(it, prev) ==
    Abs(secsTo(prev.date, it.date)) < kAttachMessageToPreviousSecondsDelta

C3_WitnessSelf ==
    /\ last.op = "computeIsAttachToPrevious"
    /\ isSelf
    /\ item[last.el].from # item[last.arg].from
    /\ item[last.el].senderOriginal = item[last.arg].senderOriginal
    /\ item[last.el].forwarded /\ item[last.arg].forwarded
    /\ secsTo(item[last.arg].date, item[last.el].date)
          = kAttachMessageToPreviousSecondsDelta - 1
    /\ last.res

---------------------------------------------------------------------------
(* SpecStep: Intro::Widget::getStep on a widget that shows a step. *)

Steps == {"start", "phone", "code"}

InitStep ==
    /\ stepHistory \in SeqsUpTo(Steps, MaxSteps) \ {<< >>}
    /\ NoItems /\ NoBlocks /\ NoGroups /\ NoResize
    /\ context = [e \in Elems |-> "History"]
    /\ flags = [e \in Elems |-> {}]
    /\ last = NoCall

(* QVector::at(i): the element, or anything at all outside the vector. *)
at(vector, i) ==
    IF i >= 0 /\ i < Len(vector) THEN {vector[i + 1]} ELSE Steps \cup {"out of range"}

(* Intro::Widget::getStep(skip); was is the index read. *)
getStep(skip) ==
    /\ Len(stepHistory) + skip > 0          \* Assert(_stepHistory.size() + skip > 0)
    /\ \E step \in at(stepHistory, Len(stepHistory) - skip - 1) :
          last' = Call("getStep", nullptr, skip, Len(stepHistory) - skip - 1, FALSE,
                       << step >>, << >>)
    /\ UNCHANGED << item, isSelf, context, flags, block, indexInBlock, messages,
                    mainView, group, media, hasPendingResizedItems,
                    initSincePending, stepHistory >>

GetStep == \E skip \in -MaxSkip .. MaxSkip : getStep(skip)

NextStep == GetStep

SpecStep == InitStep /\ [][NextStep]_vars

(* C9: whenever the assertion of getStep(skip) passes, the index read is   *)
(* within the step history, and the step returned is one of the history.   *)
C9_IndexInHistory ==
    last.op = "getStep" =>
        /\ last.was \in 0 .. Len(stepHistory) - 1
        /\ \E i \in DOMAIN stepHistory : stepHistory[i] = last.list[1]

====
